---- MODULE Spec2Model ----
(***************************************************************************)
(* LinguistBot (src/Bot.py): a Telegram bot that attaches "Translate"      *)
(* buttons under foreign-language messages and, when a button is pressed,  *)
(* translates the replied-to message and sends the result to the user who  *)
(* pressed it.                                                             *)
(*                                                                         *)
(* Strings that the program takes apart (the callback data) are sequences  *)
(* of pieces: "|" is the separator character, every other piece is a run   *)
(* of characters without "|".  Joined pieces are ordinary strings.         *)
(*                                                                         *)
(* Handlers are coroutines: they run without interruption between two      *)
(* awaits.  A handler invocation is a task; a task's pc tells where it is  *)
(* suspended.                                                              *)
(***************************************************************************)
EXTENDS Integers, Sequences, FiniteSets, Bags, TLC

VARIABLES user_preferences, model_cache, tokenizer_cache, tasks, loads, returned

vars == <<user_preferences, model_cache, tokenizer_cache, tasks, loads, returned>>

(***************************************************************************)
(* Bounds                                                                  *)
(***************************************************************************)
\* handlers that may be suspended at the same time under concurrent dispatch
MaxInFlight == 2
\* failed engine loads (from_pretrained raising) over a run
MaxFailures == 1

(***************************************************************************)
(* Module-level data of Bot.py                                             *)
(***************************************************************************)
supported_languages == <<"en", "uk", "pl">>

language_names == [l \in {"en", "uk", "pl"} |->
                     CASE l = "en" -> "English"
                       [] l = "uk" -> "Ukrainian"
                       [] l = "pl" -> "Polish"]

translation_models ==
    [k \in {<<"en", "uk">>, <<"uk", "en">>, <<"en", "pl">>,
            <<"pl", "en">>, <<"uk", "pl">>, <<"pl", "uk">>} |->
        "Helsinki-NLP/opus-mt-" \o k[1] \o "-" \o k[2]]

\* Python's None
None == [cls |-> "NoneType"]

\* a mistaken membership test that accepts everything
InList_any(x, list) == TRUE

\* `x in supported_languages` (list membership)
InList(x, list) == \E i \in DOMAIN list : list[i] = x

\* d[key] = value on a dict kept as a function
DictSet(d, key, value) ==
    [k \in DOMAIN d \cup {key} |-> IF k = key THEN value ELSE d[k]]

(***************************************************************************)
(* The environment: users, chats, texts, detector results                  *)
(***************************************************************************)
Users == {"u1", "u2"}
GroupChat == [id |-> "group", username |-> ""]
PublicChat == [id |-> "public", username |-> "lingua"]
Texts == {"", "hello"}
\* what langdetect.detect may answer for a text; "raise" is LangDetectException
DetectOutcomes == {"en", "uk", "pl", "de", "raise"}
\* what the two from_pretrained calls of one load may do
LoadOutcomes == {"ok", "tokenizer_error", "model_error"}

(***************************************************************************)
(* Callback data: f"translate|{source_lang}|{target_lang}" and             *)
(* str.split("|", 2)                                                       *)
(***************************************************************************)
\* mistaken callback data: the target written in both places
encode_target_twice(source_lang, target_lang) ==
    <<"translate", "|", target_lang, "|", target_lang>>

\* mistaken callback data: target before source
encode_swapped(source_lang, target_lang) ==
    <<"translate", "|", target_lang, "|", source_lang>>

encode(source_lang, target_lang) ==
    <<"translate", "|", source_lang, "|", target_lang>>

RECURSIVE Find(_, _, _)
\* index of the first sep in s at or after i, 0 if there is none
Find(s, sep, i) ==
    IF i > Len(s) THEN 0
    ELSE IF s[i] = sep THEN i
    ELSE Find(s, sep, i + 1)

RECURSIVE split(_, _, _)
\* s.split(sep, maxsplit): the list of fields, each a sequence of pieces
split(s, sep, maxsplit) ==
    LET i == Find(s, sep, 1)
    IN  IF maxsplit = 0 \/ i = 0 THEN <<s>>
        ELSE <<SubSeq(s, 1, i - 1)>> \o split(SubSeq(s, i + 1, Len(s)), sep, maxsplit - 1)

RECURSIVE Join(_)
\* the string a field of pieces stands for
Join(f) == IF f = <<>> THEN "" ELSE Head(f) \o Join(Tail(f))

(***************************************************************************)
(* Engines                                                                 *)
(***************************************************************************)
\* the object a from_pretrained call constructs; serial tells constructions
\* of the same class and name apart (object identity)
from_pretrained(cls, model_name, serial) ==
    [cls |-> cls, name |-> model_name, serial |-> serial]

NoLoads == [tokenizer |-> 0, model |-> 0, failed |-> 0]

RECURSIVE SumFailed(_, _)
SumFailed(ld, keys) ==
    IF keys = {} THEN 0
    ELSE LET k == CHOOSE x \in keys : TRUE
         IN  ld[k].failed + SumFailed(ld, keys \ {k})

\* failed loads so far, over all pairs
Failures(ld) == SumFailed(ld, DOMAIN ld)

\* a mistaken test of the two languages instead of the pair
pair_supported_languages(key) ==
    InList(key[1], supported_languages) /\ InList(key[2], supported_languages)

\* `key not in translation_models` is false
pair_supported(key) == key \in DOMAIN translation_models

\* a mistaken test that never finds the engine cached
resident_never(key, mc) == FALSE

\* `key not in model_cache` is false
resident(key, mc) == key \in DOMAIN mc

\* a mistaken lookup of the model of the opposite direction
model_name_of_swapped(key) == translation_models[<<key[2], key[1]>>]

\* `translation_models[key]`, for a key of translation_models
model_name_of(key) == translation_models[key]

\* a mistaken order of the two loads: the model is constructed and cached
\* before the tokenizer
load_engine_model_first(key, mc, tc, ld, env) ==
    LET model_name == model_name_of(key)
    IN  IF env = "model_error"
        THEN [model_cache |-> mc, tokenizer_cache |-> tc,
              loads |-> [ld EXCEPT ![key].failed = @ + 1],
              raised |-> TRUE, model |-> None, tokenizer |-> None]
        ELSE LET mdl == from_pretrained("MarianMTModel", model_name,
                                        ld[key].model + 1)
                 mc1 == DictSet(mc, key, mdl)
             IN  IF env = "tokenizer_error"
                 THEN [model_cache |-> mc1, tokenizer_cache |-> tc,
                       loads |-> [ld EXCEPT ![key].model = @ + 1,
                                            ![key].failed = @ + 1],
                       raised |-> TRUE, model |-> None, tokenizer |-> None]
                 ELSE LET tok == from_pretrained("MarianTokenizer", model_name,
                                                 ld[key].tokenizer + 1)
                          tc1 == DictSet(tc, key, tok)
                      IN  [model_cache |-> mc1, tokenizer_cache |-> tc1,
                           loads |-> [ld EXCEPT ![key].tokenizer = @ + 1,
                                                ![key].model = @ + 1],
                           raised |-> FALSE,
                           model |-> mc1[key], tokenizer |-> tc1[key]]

\* the body of `if key not in model_cache:` for a key of translation_models:
\* the tokenizer is constructed and cached, then the model; env is what the
\* two from_pretrained calls do, ld counts the constructions
load_engine(key, mc, tc, ld, env) ==
    LET model_name == model_name_of(key)
    IN  IF env = "tokenizer_error"
        THEN [model_cache |-> mc, tokenizer_cache |-> tc,
              loads |-> [ld EXCEPT ![key].failed = @ + 1],
              raised |-> TRUE, model |-> None, tokenizer |-> None]
        ELSE LET tok == from_pretrained("MarianTokenizer", model_name,
                                        ld[key].tokenizer + 1)
                 tc1 == DictSet(tc, key, tok)
             IN  IF env = "model_error"
                 THEN [model_cache |-> mc, tokenizer_cache |-> tc1,
                       loads |-> [ld EXCEPT ![key].tokenizer = @ + 1,
                                            ![key].failed = @ + 1],
                       raised |-> TRUE, model |-> None, tokenizer |-> None]
                 ELSE LET mdl == from_pretrained("MarianMTModel", model_name,
                                                 ld[key].model + 1)
                          mc1 == DictSet(mc, key, mdl)
                      IN  [model_cache |-> mc1, tokenizer_cache |-> tc1,
                           loads |-> [ld EXCEPT ![key].tokenizer = @ + 1,
                                                ![key].model = @ + 1],
                           raised |-> FALSE,
                           model |-> mc1[key], tokenizer |-> tc1[key]]

\* a mistaken get_translator that takes a cached tokenizer for a cached engine
get_translator_tokenizer_test(source_lang, target_lang, mc, tc, ld, env) ==
    LET key == <<source_lang, target_lang>>
        same == [model_cache |-> mc, tokenizer_cache |-> tc, loads |-> ld]
        failed == [raised |-> TRUE, model |-> None, tokenizer |-> None]
    IN  IF ~pair_supported(key)
        THEN same @@ [raised |-> FALSE, model |-> None, tokenizer |-> None]
        ELSE IF key \notin DOMAIN tc
        THEN load_engine(key, mc, tc, ld, env)
        ELSE IF key \notin DOMAIN mc
        THEN same @@ failed         \* model_cache[key]: KeyError
        ELSE same @@ [raised |-> FALSE, model |-> mc[key], tokenizer |-> tc[key]]

\* get_translator(source_lang, target_lang) on caches mc, tc; env is what the
\* from_pretrained calls do if they are made; ld counts the constructions.
\* raised: an exception leaves the function.
get_translator(source_lang, target_lang, mc, tc, ld, env) ==
    LET key == <<source_lang, target_lang>>
        same == [model_cache |-> mc, tokenizer_cache |-> tc, loads |-> ld]
        failed == [raised |-> TRUE, model |-> None, tokenizer |-> None]
    IN  IF ~pair_supported(key)
        THEN same @@ [raised |-> FALSE, model |-> None, tokenizer |-> None]
        ELSE IF ~resident(key, mc)
        THEN IF key \notin DOMAIN translation_models
             THEN same @@ failed    \* translation_models[key]: KeyError
             ELSE load_engine(key, mc, tc, ld, env)
        ELSE IF key \notin DOMAIN tc
        THEN same @@ failed         \* tokenizer_cache[key]: KeyError
        ELSE same @@ [raised |-> FALSE, model |-> mc[key], tokenizer |-> tc[key]]

\* tokenizer(...), model.generate(...), tokenizer.decode(...): the text the
\* engine makes of the input
translate(model, tokenizer, text) ==
    [model |-> model.name, tokenizer |-> tokenizer.name, input |-> text]

(***************************************************************************)
(* Calls to the chat platform                                              *)
(***************************************************************************)
\* query.answer(text, show_alert): shown to the user who pressed the button
answer(query, text, show_alert) ==
    [api |-> "query.answer", user |-> query.from_user,
     text |-> text, show_alert |-> show_alert]

\* context.bot.send_message(chat_id, text)
send_message(chat_id, text) ==
    [api |-> "bot.send_message", chat_id |-> chat_id, text |-> text]

\* message.reply_text(text, reply_markup): posted in the chat of message
reply_text(message, text, reply_markup) ==
    [api |-> "message.reply_text", chat_id |-> message.chat.id,
     reply_to |-> message.message_id,
     text |-> text, reply_markup |-> reply_markup]

InlineKeyboardButton(text, callback_data) ==
    [text |-> text, callback_data |-> callback_data]

(***************************************************************************)
(* Handler invocations                                                     *)
(***************************************************************************)
\* local variables of a handler before they are assigned
Unbound == [bound |-> FALSE]

Task(handler, pc, update, outcome, calls, locals) ==
    [handler |-> handler, pc |-> pc, update |-> update,
     outcome |-> outcome, calls |-> calls, locals |-> locals]

\* pc: "answer"  suspended in the first `await query.answer()`
\*     "done"    the handler has run to its end (its last call is issued)
\*     "fault"   an exception has left the handler

(***************************************************************************)
(* /start                                                                  *)
(***************************************************************************)
start(message) ==
    Task("start", "done", message, "welcomed",
         <<reply_text(message, "Welcome to LinguistBot!", None)>>, Unbound)

(***************************************************************************)
(* /setlang                                                                *)
(***************************************************************************)
\* user_preferences[user_id] = lang on the dict kept in insertion order as a
\* sequence of <<user_id, lang>>
PrefSet(prefs, user_id, lang) ==
    IF \E i \in DOMAIN prefs : prefs[i][1] = user_id
    THEN [i \in DOMAIN prefs |->
            IF prefs[i][1] = user_id THEN <<user_id, lang>> ELSE prefs[i]]
    ELSE Append(prefs, <<user_id, lang>>)

\* the preferences and the task set_language leaves
set_language(message, args, prefs) ==
    LET user_id == message.from_user.id
    IN  IF args = <<>> \/ ~InList(args[1], supported_languages)
        THEN [user_preferences |-> prefs,
              task |-> Task("set_language", "done", message, "rejected",
                            <<reply_text(message, "Please specify a valid language", None)>>,
                            [bound |-> TRUE, user_id |-> user_id, args |-> args])]
        ELSE [user_preferences |-> PrefSet(prefs, user_id, args[1]),
              task |-> Task("set_language", "done", message, "set",
                            <<reply_text(message, "Target language set to: " \o args[1], None)>>,
                            [bound |-> TRUE, user_id |-> user_id, args |-> args])]

(***************************************************************************)
(* Text messages: the Translate buttons                                    *)
(***************************************************************************)
\* a mistaken test that forgets the targets already offered
already_seen_never(target_lang, seen_targets) == FALSE

\* `target_lang in seen_targets`
already_seen(target_lang, seen_targets) == target_lang \in seen_targets

\* a mistaken insertion at the front of the list
add_button_first(buttons, button) == <<<<button>>>> \o buttons

\* buttons.append([button]): one row holding the button
add_button(buttons, button) == Append(buttons, <<button>>)

RECURSIVE build_buttons(_, _, _, _, _)
\* the for loop over user_preferences.items(), from its i-th item on, with the
\* buttons and seen_targets accumulated so far
build_buttons(prefs, i, source_lang, buttons, seen_targets) ==
    IF i > Len(prefs) THEN buttons
    ELSE LET target_lang == prefs[i][2]
         IN  IF source_lang = target_lang
             THEN build_buttons(prefs, i + 1, source_lang, buttons, seen_targets)
             ELSE IF already_seen(target_lang, seen_targets)
             THEN build_buttons(prefs, i + 1, source_lang, buttons, seen_targets)
             ELSE IF <<source_lang, target_lang>> \notin DOMAIN translation_models
             THEN build_buttons(prefs, i + 1, source_lang, buttons, seen_targets)
             ELSE LET target_name == IF target_lang \in DOMAIN language_names
                                     THEN language_names[target_lang]
                                     ELSE target_lang
                  IN  build_buttons(prefs, i + 1, source_lang,
                        add_button(buttons,
                                   InlineKeyboardButton("Translate to " \o target_name,
                                                        encode(source_lang, target_lang))),
                        seen_targets \cup {target_lang})

\* a mistaken test that sends the offer message even without buttons
any_buttons_always(buttons) == TRUE

\* `if buttons:`
any_buttons(buttons) == buttons /= <<>>

\* a mistaken test that lets the messages of bots through
ignored_empty_only(message) == message.text = ""

\* `not text or message.from_user.is_bot`
ignored(message) == message.text = "" \/ message.from_user.is_bot

\* the task translate_message leaves; detected is what detect(text) does
translate_message(message, detected, prefs) ==
    LET text == message.text
    IN  IF ignored(message)
        THEN Task("translate_message", "done", message, "ignored", <<>>, Unbound)
        ELSE IF detected = "raise"
        THEN Task("translate_message", "done", message, "detect_failed", <<>>, Unbound)
        ELSE LET source_lang == detected
                 locals == [bound |-> TRUE, source_lang |-> source_lang]
             IN  IF ~InList(source_lang, supported_languages)
                 THEN Task("translate_message", "done", message, "unsupported_source",
                           <<>>, locals)
                 ELSE LET buttons == build_buttons(prefs, 1, source_lang, <<>>, {})
                      IN  IF any_buttons(buttons)
                          THEN Task("translate_message", "done", message, "offered",
                                    <<reply_text(message, "Translate options:", buttons)>>,
                                    locals)
                          ELSE Task("translate_message", "done", message, "no_buttons",
                                    <<>>, locals)

(***************************************************************************)
(* Button presses                                                          *)
(***************************************************************************)
\* a mistaken recipient: the chat the buttons were posted in
recipient_chat(query) == query.message.chat.id

\* chat_id=query.from_user.id: the private chat of the user who pressed
recipient(query) == query.from_user.id

\* a mistaken test that forgets the message without text
original_missing_none_only(original_message) == original_message = None

\* `not original_message or not original_message.text`
original_missing(original_message) ==
    original_message = None \/ original_message.text = ""

\* a mistaken test that lets None through
no_model_never(model) == FALSE

\* `not model`
no_model(model) == model = None

\* button_handler up to its first await: `await query.answer()`
button_press(query) ==
    Task("button_handler", "answer", query, "pending",
         <<answer(query, "", FALSE)>>, Unbound)

\* button_handler from the first await to its end, for the suspended task t;
\* env is what the from_pretrained calls do if they are made
button_resume(t, mc, tc, ld, env) ==
    LET query == t.update
        same == [model_cache |-> mc, tokenizer_cache |-> tc, loads |-> ld]
        fields == split(query.data, "|", 2)
    IN  IF Len(fields) /= 3
        THEN same @@
             [task |-> Task("button_handler", "done", query, "malformed",
                            Append(t.calls, answer(query, "Error processing request.", TRUE)),
                            Unbound)]
        ELSE
        LET action == Join(fields[1])
            source_lang == Join(fields[2])
            target_lang == Join(fields[3])
            locals == [bound |-> TRUE, action |-> action,
                       source_lang |-> source_lang, target_lang |-> target_lang]
            original_message == query.message.reply_to_message
        IN  IF original_missing(original_message)
            THEN same @@
                 [task |-> Task("button_handler", "done", query, "not_found",
                                Append(t.calls,
                                       answer(query, "Original message not found.", TRUE)),
                                locals)]
            ELSE
            LET text == original_message.text
                got == get_translator(source_lang, target_lang, mc, tc, ld, env)
                caches == [model_cache |-> got.model_cache,
                           tokenizer_cache |-> got.tokenizer_cache,
                           loads |-> got.loads]
            IN  IF got.raised
                THEN caches @@
                     [task |-> Task("button_handler", "fault", query, "load_error",
                                    t.calls, locals)]
                ELSE IF no_model(got.model)
                THEN caches @@
                     [task |-> Task("button_handler", "done", query, "no_model",
                                    Append(t.calls,
                                           answer(query,
                                                  "No model available for this language pair.",
                                                  TRUE)),
                                    locals)]
                ELSE IF got.tokenizer = None
                THEN caches @@      \* tokenizer([text], ...): TypeError
                     [task |-> Task("button_handler", "fault", query, "type_error",
                                    t.calls, locals)]
                ELSE
                LET translated_text == translate(got.model, got.tokenizer, text)
                    chat == query.message.chat
                    message_id == original_message.message_id
                    msg == [link |-> IF chat.username /= ""
                                     THEN "https://t.me/" \o chat.username \o "/" \o message_id
                                     ELSE "",
                            original |-> text,
                            source_lang |-> source_lang,
                            target_lang |-> target_lang,
                            translated_text |-> translated_text]
                IN  caches @@
                    [task |-> Task("button_handler", "done", query, "delivered",
                                   Append(t.calls, send_message(recipient(query), msg)),
                                   locals @@ [model |-> got.model,
                                              tokenizer |-> got.tokenizer,
                                              translated_text |-> translated_text])]

(***************************************************************************)
(* Events                                                                  *)
(***************************************************************************)
Senders == [id : Users, is_bot : {FALSE}] \cup {[id |-> "bot", is_bot |-> TRUE]}

Messages == [from_user : Senders, text : Texts, chat : {GroupChat}, message_id : {"41"}]

Commands == [from_user : [id : Users, is_bot : {FALSE}], text : {"/"},
             chat : {GroupChat}, message_id : {"40"}]

CommandArgs == {<<>>, <<"en">>, <<"uk">>, <<"pl">>, <<"de">>}

\* callback data a button press may carry: data of buttons the bot has made,
\* and data it has not
Tokens == {encode("en", "uk"), encode("uk", "en"),
           encode("en", "en"), encode("de", "uk"),
           <<"translate">>, <<"translate", "|", "en">>,
           <<"open", "|", "en", "|", "uk">>,
           <<"translate", "|", "en", "|", "uk", "|", "pl">>}

OriginalMessages == {None, [message_id |-> "41", text |-> ""],
                     [message_id |-> "41", text |-> "hello"]}

Queries == [from_user : [id : Users, is_bot : {FALSE}], data : Tokens,
            message : [chat : {GroupChat, PublicChat},
                       reply_to_message : OriginalMessages]]

\* button presses arriving close together
RapidQueries == [from_user : [id : Users, is_bot : {FALSE}],
                 data : {encode("en", "uk"), encode("uk", "en"),
                         encode("en", "en"), <<"translate", "|", "en">>},
                 message : [chat : {GroupChat},
                            reply_to_message : {None, [message_id |-> "41",
                                                       text |-> "hello"]}]]

(***************************************************************************)
(* The state machine                                                       *)
(***************************************************************************)
Init ==
    /\ user_preferences = <<>>
    /\ model_cache = <<>>
    /\ tokenizer_cache = <<>>
    /\ tasks = EmptyBag
    /\ loads = [k \in DOMAIN translation_models |-> NoLoads]
    /\ returned = [k \in DOMAIN translation_models |-> {}]

InFlight == BagCardinality(tasks)

Admit(t) == tasks' = tasks (+) SetToBag({t})

\* limit: how many handlers the dispatcher lets run at the same time
Start(message, limit) ==
    /\ InFlight < limit
    /\ Admit(start(message))
    /\ UNCHANGED <<user_preferences, model_cache, tokenizer_cache, loads, returned>>

SetLanguage(message, args, limit) ==
    /\ InFlight < limit
    /\ LET r == set_language(message, args, user_preferences)
       IN  /\ user_preferences' = r.user_preferences
           /\ Admit(r.task)
    /\ UNCHANGED <<model_cache, tokenizer_cache, loads, returned>>

TranslateMessage(message, detected, limit) ==
    /\ InFlight < limit
    /\ Admit(translate_message(message, detected, user_preferences))
    /\ UNCHANGED <<user_preferences, model_cache, tokenizer_cache, loads, returned>>

ButtonPress(query, limit) ==
    /\ InFlight < limit
    /\ Admit(button_press(query))
    /\ UNCHANGED <<user_preferences, model_cache, tokenizer_cache, loads, returned>>

ButtonResume(t, env) ==
    /\ BagIn(t, tasks)
    /\ t.handler = "button_handler"
    /\ t.pc = "answer"
    /\ env /= "ok" => Failures(loads) < MaxFailures
    /\ LET r == button_resume(t, model_cache, tokenizer_cache, loads, env)
       IN  /\ model_cache' = r.model_cache
           /\ tokenizer_cache' = r.tokenizer_cache
           /\ loads' = r.loads
           /\ tasks' = (tasks (-) SetToBag({t})) (+) SetToBag({r.task})
           /\ returned' =
                IF r.task.outcome = "delivered"
                THEN [returned EXCEPT
                        ![<<r.task.locals.source_lang, r.task.locals.target_lang>>] =
                            @ \cup {<<r.task.locals.model, r.task.locals.tokenizer>>}]
                ELSE returned
    /\ UNCHANGED user_preferences

\* the handler returns to the dispatcher, or its exception reaches it
Finish(t) ==
    /\ BagIn(t, tasks)
    /\ t.pc \in {"done", "fault"}
    /\ tasks' = tasks (-) SetToBag({t})
    /\ UNCHANGED <<user_preferences, model_cache, tokenizer_cache, loads, returned>>

\* Application.run_polling() with the builder's defaults: one update at a time
Next ==
    \/ \E m \in Commands : Start(m, 1)
    \/ \E m \in Commands, args \in CommandArgs : SetLanguage(m, args, 1)
    \/ \E m \in Messages, d \in DetectOutcomes : TranslateMessage(m, d, 1)
    \/ \E q \in Queries : ButtonPress(q, 1)
    \/ \E t \in BagToSet(tasks), env \in LoadOutcomes : ButtonResume(t, env)
    \/ \E t \in BagToSet(tasks) : Finish(t)

Spec == Init /\ [][Next]_vars

\* button presses handled concurrently: up to MaxInFlight handlers suspended
NextConcurrent ==
    \/ \E q \in RapidQueries : ButtonPress(q, MaxInFlight)
    \/ \E t \in BagToSet(tasks), env \in LoadOutcomes : ButtonResume(t, env)
    \/ \E t \in BagToSet(tasks) : Finish(t)

SpecConcurrent == Init /\ [][NextConcurrent]_vars

(***************************************************************************)
(* Properties                                                              *)
(***************************************************************************)
Running == BagToSet(tasks)

ButtonTasks == {t \in Running : t.handler = "button_handler"}

MessageTasks == {t \in Running : t.handler = "translate_message"}

\* the pair a button task has decoded from its callback data
DecodedKey(t) == <<t.locals.source_lang, t.locals.target_lang>>

\* the original text of a button press can be recovered
HasOriginal(t) ==
    /\ t.update.message.reply_to_message /= None
    /\ t.update.message.reply_to_message.text /= ""

\* the buttons of the offer message a translate_message task has sent
Offers(t) ==
    IF t.outcome = "offered"
    THEN [i \in DOMAIN t.calls[1].reply_markup |-> t.calls[1].reply_markup[i][1]]
    ELSE <<>>

\* source and target a button's callback data splits into
OfferSource(b) == Join(split(b.callback_data, "|", 2)[2])
OfferTarget(b) == Join(split(b.callback_data, "|", 2)[3])

\* the task a suspended button task t becomes in this step
Resumes(t, t2) ==
    /\ BagIn(t, tasks)
    /\ t.handler = "button_handler"
    /\ t.pc = "answer"
    /\ t2.handler = "button_handler"
    /\ t2.pc /= "answer"
    /\ t2.update = t.update
    /\ tasks' = (tasks (-) SetToBag({t})) (+) SetToBag({t2})

\* C1: for a supported pair whose loads have not failed, however many button
\* handlers, one after the other or interleaved, have asked get_translator
\* for it, the tokenizer and the model were constructed exactly once and
\* every caller got that same engine, which is the cached one.
C1_SingleLoad ==
    \A key \in DOMAIN translation_models :
        loads[key].failed = 0 =>
            /\ loads[key].model <= 1
            /\ loads[key].tokenizer <= 1
            /\ Cardinality(returned[key]) <= 1
            /\ returned[key] /= {} =>
                  /\ loads[key].model = 1
                  /\ loads[key].tokenizer = 1
                  /\ key \in DOMAIN model_cache
                  /\ key \in DOMAIN tokenizer_cache
                  /\ returned[key] = {<<model_cache[key], tokenizer_cache[key]>>}
            /\ \A t \in ButtonTasks :
                  (t.outcome = "delivered" /\ DecodedKey(t) = key) =>
                      <<t.locals.model, t.locals.tokenizer>> \in returned[key]

\* two interleaved handlers of different users hold the engine of one pair
C1_Witness ==
    \E t1, t2 \in ButtonTasks :
        /\ t1.update.from_user /= t2.update.from_user
        /\ t1.outcome = "delivered"
        /\ t2.outcome = "delivered"
        /\ DecodedKey(t1) = DecodedKey(t2)
        /\ loads[DecodedKey(t1)].failed = 0

\* C2: when a button handler reaches get_translator with a pair that is not
\* in translation_models, it gets (None, None) (the handler ends with the
\* "no model" notice, not with an exception), nothing is loaded, and
\* model_cache and tokenizer_cache are what they were.
C2_UnsupportedNoEffect ==
    [][\A t \in BagToSet(tasks), t2 \in BagToSet(tasks') :
          (/\ Resumes(t, t2)
           /\ t2.locals.bound
           /\ HasOriginal(t2)
           /\ DecodedKey(t2) \notin DOMAIN translation_models)
          => /\ t2.pc = "done"
             /\ t2.outcome = "no_model"
             /\ model_cache' = model_cache
             /\ tokenizer_cache' = tokenizer_cache
             /\ loads' = loads
             /\ returned' = returned]_vars

\* an unsupported pair has been refused while an engine is cached
C2_Witness ==
    /\ DOMAIN model_cache /= {}
    /\ \E t \in ButtonTasks :
          /\ t.outcome = "no_model"
          /\ DecodedKey(t) \notin DOMAIN translation_models

\* C3: the offers translate_message sends never hold two buttons for the same
\* target language and never a button whose target is the detected source.
C3_OffersDistinct ==
    \A t \in MessageTasks :
        \A i, j \in DOMAIN Offers(t) :
            /\ OfferTarget(Offers(t)[i]) /= t.locals.source_lang
            /\ i /= j => OfferTarget(Offers(t)[i]) /= OfferTarget(Offers(t)[j])

\* two users prefer the same target and one button was offered for it
C3_Witness ==
    \E t \in MessageTasks :
        /\ t.outcome = "offered"
        /\ Len(Offers(t)) = 1
        /\ Len(user_preferences) = 2
        /\ user_preferences[1][2] = user_preferences[2][2]

\* the preferences, in iteration order, that are kept for source_lang: the
\* target differs from the source, the pair has a model, and no earlier
\* preference names the same target
KeptIndex(prefs, source_lang) ==
    {i \in DOMAIN prefs :
        /\ prefs[i][2] /= source_lang
        /\ <<source_lang, prefs[i][2]>> \in DOMAIN translation_models
        /\ \A j \in 1..(i - 1) : prefs[j][2] /= prefs[i][2]}

ReferenceTargets(prefs, source_lang) ==
    LET kept == KeptIndex(prefs, source_lang)
        nth(n) == CHOOSE i \in kept : Cardinality({j \in kept : j <= i}) = n
    IN  [n \in 1..Cardinality(kept) |-> prefs[nth(n)][2]]

\* C4: for a message whose source language was detected and is supported, the
\* buttons are, in order, those of the preferences kept by the reference
\* filter (first occurrence of a target wins), each for the detected source.
C4_OffersFollowPreferences ==
    \A t \in MessageTasks :
        (t.locals.bound /\ InList(t.locals.source_lang, supported_languages)) =>
            /\ [i \in DOMAIN Offers(t) |-> OfferTarget(Offers(t)[i])]
                 = ReferenceTargets(user_preferences, t.locals.source_lang)
            /\ \A i \in DOMAIN Offers(t) :
                  OfferSource(Offers(t)[i]) = t.locals.source_lang
            /\ t.outcome = "offered" =>
                  \A i \in DOMAIN t.calls[1].reply_markup :
                      Len(t.calls[1].reply_markup[i]) = 1

\* two buttons offered for two users with different targets
C4_Witness ==
    \E t \in MessageTasks :
        /\ Len(Offers(t)) = 2
        /\ OfferTarget(Offers(t)[1]) = user_preferences[1][2]
        /\ OfferTarget(Offers(t)[2]) = user_preferences[2][2]

\* C5: every button translate_message offers is for a pair in
\* translation_models, and a message whose detected language is not in
\* supported_languages gets no offer.
C5_OffersSupported ==
    \A t \in MessageTasks :
        /\ \A i \in DOMAIN Offers(t) :
              <<OfferSource(Offers(t)[i]), OfferTarget(Offers(t)[i])>>
                  \in DOMAIN translation_models
        /\ (t.locals.bound /\ ~InList(t.locals.source_lang, supported_languages))
              => t.calls = <<>>

\* a message in an unsupported language arrived while preferences were set,
\* and nothing was offered
C5_Witness ==
    \E t \in MessageTasks :
        /\ t.outcome = "unsupported_source"
        /\ user_preferences /= <<>>
        /\ t.calls = <<>>

\* C6: the callback data translate_message makes for (s, t) splits in
\* button_handler into exactly s and t: a handler that was given
\* encode(s, t) for a pair of translation_models has decoded source s and
\* target t, and the data of every offered button splits into three fields,
\* the detected source and the target the button is labelled with.
C6_TokenRoundTrip ==
    /\ \A t \in ButtonTasks :
          \A key \in DOMAIN translation_models :
              (t.pc /= "answer" /\ t.update.data = encode(key[1], key[2])) =>
                  /\ t.locals.bound
                  /\ t.locals.action = "translate"
                  /\ DecodedKey(t) = key
    /\ \A t \in MessageTasks :
          \A i \in DOMAIN Offers(t) :
              LET b == Offers(t)[i]
              IN  /\ Len(split(b.callback_data, "|", 2)) = 3
                  /\ OfferSource(b) = t.locals.source_lang
                  /\ OfferTarget(b) \in DOMAIN language_names
                  /\ b.text = "Translate to " \o language_names[OfferTarget(b)]

\* a handler has decoded the data made for a supported pair
C6_Witness ==
    \E t \in ButtonTasks :
        /\ t.pc /= "answer"
        /\ t.update.data = encode("uk", "en")
        /\ DecodedKey(t) = <<"uk", "en">>

\* callback data that translate_message can have made: the code of a source
\* and a target language
ProducedByEncode(data) ==
    \E i, j \in DOMAIN supported_languages :
        data = encode(supported_languages[i], supported_languages[j])

\* the alerts (text shown to the user who pressed) a task has issued
Notices(t) ==
    {i \in DOMAIN t.calls :
        /\ t.calls[i].api = "query.answer"
        /\ t.calls[i].show_alert
        /\ t.calls[i].text /= ""}

Deliveries(t) == {i \in DOMAIN t.calls : t.calls[i].api = "bot.send_message"}

\* C7: a button press whose callback data was not made by encode (wrong
\* number of fields, another action tag, a field that is no supported
\* language) is rejected: no exception leaves the handler, no engine is
\* loaded, nothing is translated and no private message is sent.
C7_ForeignDataRejected ==
    \A t \in ButtonTasks :
        (t.pc /= "answer" /\ ~ProducedByEncode(t.update.data)) =>
            /\ t.pc = "done"
            /\ t.outcome \in {"malformed", "not_found", "no_model"}
            /\ Deliveries(t) = {}

\* C8: a button press whose data splits into a pair that is not in
\* translation_models, with the original text at hand, ends with exactly one
\* alert to the user who pressed, the "no model" one; no private message is
\* sent and no engine is cached for that pair.
C8_UnsupportedPairNotice ==
    \A t \in ButtonTasks :
        (/\ t.pc /= "answer"
         /\ t.locals.bound
         /\ HasOriginal(t)
         /\ DecodedKey(t) \notin DOMAIN translation_models) =>
            /\ t.pc = "done"
            /\ Cardinality(Notices(t)) = 1
            /\ \A i \in Notices(t) :
                  /\ t.calls[i].user = t.update.from_user
                  /\ t.calls[i].text = "No model available for this language pair."
            /\ Deliveries(t) = {}
            /\ DecodedKey(t) \notin DOMAIN model_cache
            /\ DecodedKey(t) \notin DOMAIN tokenizer_cache

\* the pair (en, en) of two supported languages was refused with the notice
C8_Witness ==
    \E t \in ButtonTasks :
        /\ t.update.data = encode("en", "en")
        /\ HasOriginal(t)
        /\ t.outcome = "no_model"
        /\ Cardinality(Notices(t)) = 1

\* C9: a translation made by button_handler is sent by exactly one call,
\* bot.send_message to the private chat of the user who pressed; no handler
\* sends a private message to anyone but the user of its own event, and
\* button_handler posts nothing in the chat.
C9_PrivateDelivery ==
    \A t \in Running :
        /\ \A i \in DOMAIN t.calls :
              /\ t.calls[i].api = "bot.send_message" =>
                    /\ t.handler = "button_handler"
                    /\ t.calls[i].chat_id = t.update.from_user.id
              /\ t.calls[i].api = "query.answer" =>
                    t.calls[i].user = t.update.from_user
              /\ t.handler = "button_handler" =>
                    t.calls[i].api \in {"query.answer", "bot.send_message"}
        /\ t.outcome = "delivered" =>
              /\ Cardinality(Deliveries(t)) = 1
              /\ \A i \in Deliveries(t) :
                    t.calls[i].text.translated_text =
                        translate(t.locals.model, t.locals.tokenizer,
                                  t.update.message.reply_to_message.text)

\* a translation was delivered to u2 for a message of the public chat
C9_Witness ==
    \E t \in ButtonTasks :
        /\ t.outcome = "delivered"
        /\ t.update.from_user.id = "u2"
        /\ t.update.message.chat = PublicChat
        /\ \E i \in Deliveries(t) : t.calls[i].chat_id = "u2"

\* C10: when the load of the engine fails during a button press, the user who
\* pressed gets an alert, the handler ends normally and no private message
\* is sent.
C10_LoadFailureNotice ==
    \A t \in ButtonTasks :
        t.outcome = "load_error" =>
            /\ t.pc = "done"
            /\ \E i \in Notices(t) : t.calls[i].user = t.update.from_user
            /\ Deliveries(t) = {}

\* C11: after a failed load of a supported pair (tokenizer or model), the
\* pair is not in model_cache, and the next get_translator for it makes the
\* from_pretrained calls again: either they fail again, or the handler gets
\* the newly constructed model and tokenizer of that pair, both cached.
C11_RetryAfterFailure ==
    [][\A t \in BagToSet(tasks), t2 \in BagToSet(tasks') :
          (/\ Resumes(t, t2)
           /\ t2.locals.bound
           /\ HasOriginal(t2)
           /\ DecodedKey(t2) \in DOMAIN translation_models
           /\ loads[DecodedKey(t2)].failed > 0
           /\ loads[DecodedKey(t2)].model = 0)
          => LET key == DecodedKey(t2)
             IN  /\ key \notin DOMAIN model_cache
                 /\ \/ /\ loads'[key].failed = loads[key].failed + 1
                       /\ t2.pc = "fault"
                       /\ key \notin DOMAIN model_cache'
                    \/ /\ loads'[key].failed = loads[key].failed
                       /\ loads'[key].model = 1
                       /\ loads'[key].tokenizer = loads[key].tokenizer + 1
                       /\ t2.outcome = "delivered"
                       /\ key \in DOMAIN model_cache'
                       /\ key \in DOMAIN tokenizer_cache'
                       /\ t2.locals.model = model_cache'[key]
                       /\ t2.locals.tokenizer = tokenizer_cache'[key]
                       /\ t2.locals.model =
                             from_pretrained("MarianMTModel", translation_models[key], 1)
                       /\ t2.locals.tokenizer =
                             from_pretrained("MarianTokenizer", translation_models[key],
                                             loads'[key].tokenizer)]_vars

\* an engine was delivered by the load that followed a failed model load
C11_Witness ==
    \E t \in ButtonTasks :
        /\ t.outcome = "delivered"
        /\ loads[DecodedKey(t)].failed = 1
        /\ loads[DecodedKey(t)].tokenizer = 2
        /\ t.locals.tokenizer.serial = 2

RECURSIVE SumCopies(_)
\* how many of the running tasks are in the set S of tasks
SumCopies(S) ==
    IF S = {} THEN 0
    ELSE LET t == CHOOSE x \in S : TRUE
         IN  CopiesIn(t, tasks) + SumCopies(S \ {t})

\* the running handlers, given this callback data on this offer message, that
\* have run the translation (their translated_text is bound)
TranslationsRun(data, message) ==
    SumCopies({t \in ButtonTasks : /\ t.outcome = "delivered"
                                   /\ t.update.data = data
                                   /\ t.update.message = message})

\* C12 as stated: for presses carrying the same valid callback data on the
\* same offer message, the translation is run at most once in total and the
\* engine is loaded at most once in total, and each press gets its delivery.
C12_TranslatedOnce ==
    \A t \in ButtonTasks :
        (t.pc /= "answer" /\ t.locals.bound
         /\ DecodedKey(t) \in DOMAIN translation_models) =>
            /\ loads[DecodedKey(t)].model <= 1
            /\ TranslationsRun(t.update.data, t.update.message) <= 1
            /\ t.outcome = "delivered" => Cardinality(Deliveries(t)) = 1

\* C12, amended: for presses carrying the same valid callback data, the model
\* of the pair is constructed at most once in total; every press whose
\* handler got the engine has run the translation itself, with that one
\* cached engine, and has its own private delivery of it.
C12_LoadedOncePerPair ==
    \A t \in ButtonTasks :
        (t.pc /= "answer" /\ t.locals.bound
         /\ DecodedKey(t) \in DOMAIN translation_models) =>
            /\ loads[DecodedKey(t)].model <= 1
            /\ t.outcome = "delivered" =>
                  /\ loads[DecodedKey(t)].model = 1
                  /\ t.locals.model = model_cache[DecodedKey(t)]
                  /\ t.locals.translated_text =
                        translate(model_cache[DecodedKey(t)],
                                  tokenizer_cache[DecodedKey(t)],
                                  t.update.message.reply_to_message.text)
                  /\ Cardinality(Deliveries(t)) = 1
                  /\ \A i \in Deliveries(t) :
                        /\ t.calls[i].chat_id = t.update.from_user.id
                        /\ t.calls[i].text.translated_text = t.locals.translated_text

\* the same user pressed the same button twice and both handlers delivered
C12_Witness ==
    \E t \in ButtonTasks :
        /\ t.outcome = "delivered"
        /\ CopiesIn(t, tasks) = 2
        /\ loads[DecodedKey(t)].model = 1

\* C13 as stated: a button press whose original text cannot be recovered (no
\* replied-to message, or one without text) ends with the "not found" alert
\* to the user who pressed and nothing else: nothing is loaded, translated
\* or delivered, and the caches are untouched by the handler.
C13_NotFoundAlways ==
    [][\A t \in BagToSet(tasks), t2 \in BagToSet(tasks') :
          (Resumes(t, t2) /\ ~HasOriginal(t2)) =>
             /\ t2.pc = "done"
             /\ t2.outcome = "not_found"
             /\ Cardinality(Notices(t2)) = 1
             /\ \A i \in Notices(t2) :
                   /\ t2.calls[i].user = t2.update.from_user
                   /\ t2.calls[i].text = "Original message not found."
             /\ Deliveries(t2) = {}
             /\ model_cache' = model_cache
             /\ tokenizer_cache' = tokenizer_cache
             /\ loads' = loads]_vars

\* C13, amended: such a press ends with exactly one alert to the user who
\* pressed and nothing is loaded, translated or delivered; the alert is the
\* "not found" one when the callback data has three fields, and the
\* "error processing" one when it has fewer (the data is split first).
C13_NotFoundAfterSplit ==
    [][\A t \in BagToSet(tasks), t2 \in BagToSet(tasks') :
          (Resumes(t, t2) /\ ~HasOriginal(t2)) =>
             /\ t2.pc = "done"
             /\ Cardinality(Notices(t2)) = 1
             /\ \A i \in Notices(t2) :
                   /\ t2.calls[i].user = t2.update.from_user
                   /\ t2.calls[i].text =
                         IF Len(split(t2.update.data, "|", 2)) = 3
                         THEN "Original message not found."
                         ELSE "Error processing request."
             /\ t2.outcome = IF Len(split(t2.update.data, "|", 2)) = 3
                             THEN "not_found" ELSE "malformed"
             /\ Deliveries(t2) = {}
             /\ model_cache' = model_cache
             /\ tokenizer_cache' = tokenizer_cache
             /\ loads' = loads]_vars

\* a valid button of a message that has no text was pressed: not found, and
\* the engine of the pair is not loaded
C13_Witness ==
    \E t \in ButtonTasks :
        /\ t.outcome = "not_found"
        /\ t.update.data = encode("en", "uk")
        /\ t.update.message.reply_to_message /= None
        /\ <<"en", "uk">> \notin DOMAIN model_cache
        /\ <<"en", "uk">> \notin DOMAIN tokenizer_cache

\* the task t2 is the handler invocation this step has admitted
Admits(t2) == tasks' = tasks (+) SetToBag({t2})

\* C14: a text message that is empty, or sent by a bot, or whose language
\* detection raises is dropped: the handler makes no call to the platform,
\* and user_preferences, model_cache and tokenizer_cache stay as they were.
C14_SilentDrop ==
    [][\A t2 \in BagToSet(tasks') :
          (/\ Admits(t2)
           /\ t2.handler = "translate_message"
           /\ \/ t2.update.text = ""
              \/ t2.update.from_user.is_bot
              \/ t2.outcome = "detect_failed")
          => /\ t2.calls = <<>>
             /\ t2.pc = "done"
             /\ user_preferences' = user_preferences
             /\ model_cache' = model_cache
             /\ tokenizer_cache' = tokenizer_cache
             /\ loads' = loads]_vars

\* a bot's text message was ignored while a preference was stored and an
\* engine was cached
C14_Witness ==
    \E t \in MessageTasks :
        /\ t.update.from_user.is_bot
        /\ t.update.text /= ""
        /\ t.calls = <<>>
        /\ user_preferences /= <<>>
        /\ DOMAIN model_cache /= {}

\* C15: for a message whose detected language is supported, nothing is sent
\* when no preference yields a candidate, and otherwise exactly one message
\* is sent, in the chat of the message and in reply to it, with one button
\* for every candidate.
C15_OneOfferMessage ==
    \A t \in MessageTasks :
        (t.locals.bound /\ InList(t.locals.source_lang, supported_languages)) =>
            LET candidates == ReferenceTargets(user_preferences, t.locals.source_lang)
            IN  IF candidates = <<>>
                THEN t.calls = <<>>
                ELSE /\ Len(t.calls) = 1
                     /\ t.calls[1].api = "message.reply_text"
                     /\ t.calls[1].chat_id = t.update.chat.id
                     /\ t.calls[1].reply_to = t.update.message_id
                     /\ Len(t.calls[1].reply_markup) = Len(candidates)
                     /\ \A i \in DOMAIN candidates :
                           t.calls[1].reply_markup[i] =
                               <<InlineKeyboardButton(
                                    "Translate to " \o language_names[candidates[i]],
                                    encode(t.locals.source_lang, candidates[i]))>>

\* an English message while the only preference is English: nothing is sent
C15_Witness ==
    \E t \in MessageTasks :
        /\ t.locals.bound
        /\ t.locals.source_lang = "en"
        /\ Len(user_preferences) = 1
        /\ user_preferences[1][2] = "en"
        /\ t.calls = <<>>

\* the languages stored for a user in a preference store
Preferred(prefs, user_id) ==
    {prefs[i][2] : i \in {j \in DOMAIN prefs : prefs[j][1] = user_id}}

\* every stored preference is a supported language, and a user is stored once
PreferencesWellFormed ==
    /\ \A i \in DOMAIN user_preferences :
          user_preferences[i][2] \in
              {supported_languages[k] : k \in DOMAIN supported_languages}
    /\ \A i, j \in DOMAIN user_preferences :
          user_preferences[i][1] = user_preferences[j][1] => i = j

\* what a /setlang command does to the store
SetLanguageEffect ==
    \A t2 \in BagToSet(tasks') :
        (Admits(t2) /\ t2.handler = "set_language") =>
            LET user_id == t2.update.from_user.id
                args == t2.locals.args
            IN  IF args /= <<>> /\ args[1] \in
                      {supported_languages[k] : k \in DOMAIN supported_languages}
                THEN /\ Preferred(user_preferences', user_id) = {args[1]}
                     /\ \A u \in Users \ {user_id} :
                           Preferred(user_preferences', u) = Preferred(user_preferences, u)
                     /\ t2.outcome = "set"
                ELSE /\ user_preferences' = user_preferences
                     /\ t2.outcome = "rejected"

\* C16: /setlang with a supported language makes it the preference of the
\* sender, whatever was stored before, and changes no other user's; without
\* an argument or with an unsupported one the store is unchanged.  So every
\* stored preference is always a supported language and every user has at
\* most one.
C16_SetLanguage == []PreferencesWellFormed /\ [][SetLanguageEffect]_vars

\* u1 has replaced a preference while u2 keeps another one
C16_Witness ==
    \E t \in Running :
        /\ t.handler = "set_language"
        /\ t.outcome = "set"
        /\ t.update.from_user.id = "u1"
        /\ user_preferences = <<<<"u2", "pl">>, <<"u1", "uk">>>>

\* C17: no failure inside a handler (detection failure, malformed callback
\* data, missing original, unsupported pair, failed engine load) leaves the
\* handler as an exception: every handler invocation ends normally.
C17_NoUnhandledFault ==
    \A t \in Running : t.pc /= "fault"

\* C18: the engine cached for, and returned for, a pair (s, t) is always the
\* one constructed from the model name registered for exactly (s, t); no
\* engine is returned for two different pairs, the swapped pair included.
C18_EnginePerPair ==
    /\ \A key \in DOMAIN model_cache :
          /\ key \in DOMAIN translation_models
          /\ model_cache[key].cls = "MarianMTModel"
          /\ model_cache[key].name = translation_models[key]
    /\ \A key \in DOMAIN tokenizer_cache :
          /\ key \in DOMAIN translation_models
          /\ tokenizer_cache[key].cls = "MarianTokenizer"
          /\ tokenizer_cache[key].name = translation_models[key]
    /\ \A key \in DOMAIN translation_models :
          /\ \A e \in returned[key] :
                /\ e[1].name = translation_models[key]
                /\ e[2].name = translation_models[key]
          /\ \A other \in DOMAIN translation_models \ {key} :
                returned[key] \cap returned[other] = {}
    /\ \A t \in ButtonTasks :
          t.outcome = "delivered" =>
              /\ t.locals.model.name = translation_models[DecodedKey(t)]
              /\ t.locals.tokenizer.name = translation_models[DecodedKey(t)]
              /\ t.locals.translated_text.model = translation_models[DecodedKey(t)]

\* both directions of a pair are cached and the handler of uk-en got its own
C18_Witness ==
    /\ <<"en", "uk">> \in DOMAIN model_cache
    /\ <<"uk", "en">> \in DOMAIN model_cache
    /\ \E t \in ButtonTasks :
          /\ t.outcome = "delivered"
          /\ DecodedKey(t) = <<"uk", "en">>
          /\ t.locals.model = model_cache[<<"uk", "en">>]
          /\ t.locals.model /= model_cache[<<"en", "uk">>]

\* C19: engines are loaded lazily.  A step that changes model_cache or
\* tokenizer_cache, or makes a from_pretrained call, is the resumption of a
\* button handler whose callback data has split into three fields and whose
\* original text is at hand; a text message or a /setlang command changes
\* none of them.
C19_LazyLoading ==
    [][/\ (\/ model_cache' /= model_cache
           \/ tokenizer_cache' /= tokenizer_cache
           \/ loads' /= loads)
          => \E t \in BagToSet(tasks), t2 \in BagToSet(tasks') :
                /\ Resumes(t, t2)
                /\ t2.locals.bound
                /\ HasOriginal(t2)
       /\ \A t2 \in BagToSet(tasks') :
             (Admits(t2) /\ t2.handler \in {"translate_message", "set_language"})
             => /\ model_cache' = model_cache
                /\ tokenizer_cache' = tokenizer_cache
                /\ loads' = loads]_vars

\* buttons were offered for en-uk and en-pl while only the engine of en-uk,
\* loaded by an earlier button press, is cached
C19_Witness ==
    /\ DOMAIN model_cache = {<<"en", "uk">>}
    /\ DOMAIN tokenizer_cache = {<<"en", "uk">>}
    /\ \E t \in MessageTasks :
          /\ Len(Offers(t)) = 2
          /\ t.locals.source_lang = "en"

\* C20: the keys of model_cache and of tokenizer_cache are pairs of
\* translation_models, every key of model_cache is a key of tokenizer_cache,
\* and an engine that get_translator has returned has a model and a tokenizer.
C20_CacheKeys ==
    /\ DOMAIN model_cache \subseteq DOMAIN translation_models
    /\ DOMAIN tokenizer_cache \subseteq DOMAIN translation_models
    /\ DOMAIN model_cache \subseteq DOMAIN tokenizer_cache
    /\ \A key \in DOMAIN translation_models :
          \A e \in returned[key] : e[1] /= None /\ e[2] /= None
    /\ \A t \in ButtonTasks :
          t.outcome = "delivered" =>
              /\ t.locals.model /= None
              /\ t.locals.tokenizer /= None
              /\ DecodedKey(t) \in DOMAIN model_cache
              /\ DecodedKey(t) \in DOMAIN tokenizer_cache

\* one pair is fully cached while another has only the tokenizer that a
\* failed model load left behind
C20_Witness ==
    /\ DOMAIN model_cache /= {}
    /\ DOMAIN tokenizer_cache \ DOMAIN model_cache /= {}

====
